---- MODULE Spec2Model ----
(***************************************************************************)
(* PowerGenome: the scenario-settings overlay (build_scenario_settings in  *)
(* run_powergenome_multiple_outputs_cli.py) and the fuel cost table        *)
(* (fuel_cost_table, adjust_ccs_fuels, add_carbon_tax in fuels.py).        *)
(*                                                                         *)
(* Three specifications share the module's variables:                      *)
(*   Spec       the loop of build_scenario_settings over (year, case_id),  *)
(*   SpecFuel   one call of fuel_cost_table,                               *)
(*   SpecMerge  update_dictionary applied once and twice to drawn inputs.  *)
(***************************************************************************)
EXTENDS Integers, Sequences, FiniteSets, TLC

VARIABLES
    \* ---- build_scenario_settings ----
    settings,               \* the base settings object (dict)
    scenario_definitions,   \* the scenario-definition table: a sequence of rows
    _settings,              \* the case's working settings (dict)
    same_object,            \* TRUE iff _settings is the very object `settings`
    modified_settings,      \* keys patched so far in the current case (list)
    scenario_settings,      \* year -> case_id -> Settings, as built so far
    year_idx, case_idx, cat_idx,   \* positions of the three nested loops
    pc,                     \* "year_loop" | "case_loop" | "category_loop" | "return" | "raise"
    error,                  \* the exception that left the function, or "none"
    \* ---- fuel_cost_table ----
    generators,             \* generators["Fuel"]: the roster's fuel of each row
    all_fuel_costs,         \* rows (full_fuel_name, year, price)
    fuel_settings,          \* the settings argument of fuel_cost_table
    fuel_price_map, fuel_emission_map,
    fuel_df,                \* one row per unique fuel: Fuel, Cost, CO2
    fuel_df_new,            \* the returned table: Time_Index -> fuel -> value
    fpc,                    \* position inside fuel_cost_table
    \* ---- update_dictionary, applied to drawn inputs ----
    m_base, m_patch, m_once, m_twice, mpc

svars == <<settings, scenario_definitions, _settings, same_object,
           modified_settings, scenario_settings, year_idx, case_idx, cat_idx,
           pc, error>>
fvars == <<generators, all_fuel_costs, fuel_settings, fuel_price_map,
           fuel_emission_map, fuel_df, fuel_df_new, fpc>>
mvars == <<m_base, m_patch, m_once, m_twice, mpc>>
vars == <<svars, fvars, mvars>>

(***************************************************************************)
(* Settings values.  A settings object is a dict: a function from option   *)
(* names (strings) to values.  A value is a scalar, a string kept as its   *)
(* characters, a sequence, or a nested mapping; every value carries all    *)
(* four fields so that any two values can be compared.                     *)
(***************************************************************************)
Atom(a) == [kind |-> "atom", atom |-> a, items |-> <<>>, fields |-> <<>>]
StrV(chars) == [kind |-> "str", atom |-> "", items |-> chars, fields |-> <<>>]
SeqV(s) == [kind |-> "seq", atom |-> "", items |-> s, fields |-> <<>>]
Map(d) == [kind |-> "map", atom |-> "", items |-> <<>>, fields |-> d]

EmptyDict == <<>>

\* d[k] = v on a dict (added if absent)
SetItem(d, k, v) == [x \in DOMAIN d \cup {k} |-> IF x = k THEN v ELSE d[x]]

\* first-seen order of the distinct elements of a sequence (pandas unique /
\* drop_duplicates)
RECURSIVE unique(_)
unique(s) ==
    IF s = <<>> THEN <<>>
    ELSE LET front == unique(SubSeq(s, 1, Len(s) - 1))
             last == s[Len(s)]
         IN IF \E i \in DOMAIN front : front[i] = last
            THEN front ELSE Append(front, last)

Range(s) == {s[i] : i \in DOMAIN s}

(***************************************************************************)
(* update_dictionary (powergenome.util): for each key of the patch, merge  *)
(* recursively when both sides are mappings, otherwise the patch's value   *)
(* replaces (or adds) the entry.                                           *)
(***************************************************************************)
RECURSIVE update_dictionary_extend(_, _)
update_dictionary_extend(d, u) ==
    [k \in DOMAIN d \cup DOMAIN u |->
        IF k \notin DOMAIN u THEN d[k]
        ELSE IF k \in DOMAIN d /\ d[k].kind = "map" /\ u[k].kind = "map"
             THEN Map(update_dictionary_extend(d[k].fields, u[k].fields))
             ELSE IF k \in DOMAIN d /\ d[k].kind = "seq" /\ u[k].kind = "seq"
                  THEN SeqV(d[k].items \o u[k].items)
                  ELSE u[k]]

RECURSIVE update_dictionary(_, _)
update_dictionary(d, u) ==
    [k \in DOMAIN d \cup DOMAIN u |->
        IF k \notin DOMAIN u THEN d[k]
        ELSE IF k \in DOMAIN d /\ d[k].kind = "map" /\ u[k].kind = "map"
             THEN Map(update_dictionary(d[k].fields, u[k].fields))
             ELSE u[k]]

(***************************************************************************)
(* Inputs of build_scenario_settings.                                      *)
(***************************************************************************)
\* number of case ids the scenario-definition table may name
NumCases == 2

CaseIdList == <<"p1", "p2", "p3">>
CaseIds == {CaseIdList[i] : i \in 1..NumCases}

\* the override categories: the table's columns after case_id and year
Categories == <<"ng_price", "ccs_capex">>
Columns == <<"case_id", "year">> \o Categories
Variants == {"ref", "high"}

\* settings["settings_management"]: year -> category -> variant -> patch.
\* 2030 defines both categories and both variants; the "high" ccs_capex patch
\* touches ng_cost, which every ng_price patch touches too.  2040 has no entry
\* for ng_price and no "high" variant under ccs_capex.
SettingsManagement ==
    [y \in {"2030", "2040"} |->
        IF y = "2030"
        THEN Map([c \in {"ng_price", "ccs_capex"} |->
                IF c = "ng_price"
                THEN Map([v \in {"ref", "high"} |->
                        IF v = "ref"
                        THEN Map([k \in {"ng_cost"} |-> Atom("4")])
                        ELSE Map([k \in {"ng_cost", "model_year"} |->
                                IF k = "ng_cost" THEN Atom("5")
                                ELSE Atom("1999")])])
                ELSE Map([v \in {"ref", "high"} |->
                        IF v = "ref"
                        THEN Map([k \in {"atb"} |->
                                Map([j \in {"ccs"} |-> Atom("mid")])])
                        ELSE Map([k \in {"atb", "ng_cost"} |->
                                IF k = "atb"
                                THEN Map([j \in {"ccs"} |-> Atom("high")])
                                ELSE Atom("6")])])])
        ELSE Map([c \in {"ccs_capex"} |->
                Map([v \in {"ref"} |->
                        Map([k \in {"atb", "model_first_planning_year"} |->
                                IF k = "atb"
                                THEN Map([j \in {"ccs", "solar"} |-> Atom("mid")])
                                ELSE Atom("1990")])])])]

\* the settings file as loaded: model_year and model_first_planning_year are
\* parallel lists of equal length (main() asserts it before the call)
BaseSettings ==
    [k \in {"model_year", "model_first_planning_year", "ng_cost", "atb",
            "settings_management"} |->
        CASE k = "model_year" -> SeqV(<<"2030", "2040">>)
          [] k = "model_first_planning_year" -> SeqV(<<"2025", "2031">>)
          [] k = "ng_cost" -> Atom("3")
          [] k = "atb" -> Map([j \in {"ccs", "wind"} |->
                                IF j = "ccs" THEN Atom("low") ELSE Atom("mid")])
          [] OTHER -> Map(SettingsManagement)]

\* the case-id description file: case_id -> description, as characters
case_id_name_df ==
    [c \in Range(CaseIdList) |->
        CASE c = "p1" -> <<"b", " ", "1">>
          [] c = "p2" -> <<"h", "i", " ", " ", "g">>
          [] OTHER -> <<"c", "3">>]

\* str.replace(" ", "_")
str_replace(chars) ==
    [i \in DOMAIN chars |-> IF chars[i] = " " THEN "_" ELSE chars[i]]

build_case_id_name_map == [c \in DOMAIN case_id_name_df |-> str_replace(case_id_name_df[c])]

case_id_name_map == build_case_id_name_map

\* {year: (start_year, year)} from zip(model_year, model_first_planning_year);
\* a tuple's Python index 0 is index 1 here
model_planning_period_dict_swapped ==
    LET my == BaseSettings["model_year"].items
        fp == BaseSettings["model_first_planning_year"].items
        n == IF Len(my) < Len(fp) THEN Len(my) ELSE Len(fp)
    IN [y \in {my[i] : i \in 1..n} |->
            LET i == CHOOSE j \in 1..n :
                        my[j] = y /\ \A l \in 1..n : my[l] = y => l <= j
            IN <<my[i], fp[i]>>]

model_planning_period_dict ==
    LET my == BaseSettings["model_year"].items
        fp == BaseSettings["model_first_planning_year"].items
        n == IF Len(my) < Len(fp) THEN Len(my) ELSE Len(fp)
    IN [y \in {my[i] : i \in 1..n} |->
            LET i == CHOOSE j \in 1..n :
                        my[j] = y /\ \A l \in 1..n : my[l] = y => l <= j
            IN <<fp[i], my[i]>>]

\* The scenario-definition tables drawn: any set of (case_id, year) rows in
\* which every model year occurs (main() asserts that the table's years are
\* the settings' model years), each row choosing a variant per category.
\* Rows are listed year by year.
ModelYears == BaseSettings["model_year"].items
AllPairs ==
    [i \in 1..(Len(ModelYears) * NumCases) |->
        <<CaseIdList[((i - 1) % NumCases) + 1], ModelYears[((i - 1) \div NumCases) + 1]>>]
PresentSets ==
    {P \in SUBSET Range(AllPairs) :
        \A y \in Range(ModelYears) : \E c \in CaseIds : <<c, y>> \in P}
TableOf(f) ==
    LET ps == SelectSeq(AllPairs, LAMBDA p : p \in DOMAIN f)
    IN [i \in DOMAIN ps |->
            [case_id |-> ps[i][1], year |-> ps[i][2], cells |-> f[ps[i]]]]
Tables ==
    UNION {{TableOf(f) : f \in [P -> [Range(Categories) -> Variants]]} : P \in PresentSets}

(***************************************************************************)
(* build_scenario_settings                                                 *)
(***************************************************************************)
\* copy.deepcopy(obj): an equal value in a new object
no_copy(obj) == [value |-> obj, same_object |-> TRUE]

deepcopy(obj) == [value |-> obj, same_object |-> FALSE]

\* scenario_definitions[col].unique()
unique_years(table) == unique([i \in DOMAIN table |-> table[i].year])
unique_case_ids(table) == unique([i \in DOMAIN table |-> table[i].case_id])

\* scenario_definitions.loc[(case_id == ...) & (year == ...), :]
case_scenario_definitions(table, case_id, year) ==
    SelectSeq(table, LAMBDA r : r.case_id = case_id /\ r.year = year)

\* .squeeze() gives a Series (one row) only for a one-row frame; .at[col] is a
\* scalar access on a Series and raises on a frame
squeeze_is_series(frame) == Len(frame) = 1

row_at(row, col) ==
    CASE col = "case_id" -> Atom(row.case_id)
      [] col = "year" -> Atom(row.year)
      [] OTHER -> Atom(row.cells[col])

\* for col in scenario_definitions.columns: _settings[col] = row.at[col]
RECURSIVE column_overlay(_, _, _)
column_overlay(s, row, cols) ==
    IF cols = <<>> THEN s
    ELSE column_overlay(SetItem(s, Head(cols), row_at(row, Head(cols))), row, Tail(cols))

\* scenario_definitions.loc[year == ...].set_index("case_id").to_dict(), "year"
\* popped: category -> (case_id -> variant); a repeated case_id keeps its last row
planning_year_scenario_definitions_dict(table, year) ==
    LET rows == SelectSeq(table, LAMBDA r : r.year = year)
        ids == {rows[i].case_id : i \in DOMAIN rows}
        last(c) == CHOOSE i \in DOMAIN rows :
                      rows[i].case_id = c /\ \A j \in DOMAIN rows : rows[j].case_id = c => j <= i
    IN [cat \in Range(Categories) |-> [c \in ids |-> rows[last(c)].cells[cat]]]

\* settings["settings_management"][year]
planning_year_settings_management(base, year) ==
    base["settings_management"].fields[year].fields

\* the body of the try: case_value_dict[case_id], then
\* planning_year_settings_management[category][case_value]; a KeyError in
\* either lookup leaves found = FALSE
new_parameter_any_year(base, table, year, category, case_id) ==
    LET case_value_dict == planning_year_scenario_definitions_dict(table, year)[category]
        sm == base["settings_management"].fields
        ys == {y \in DOMAIN sm : category \in DOMAIN sm[y].fields}
    IN IF case_id \notin DOMAIN case_value_dict \/ ys = {}
       THEN [found |-> FALSE, patch |-> EmptyDict]
       ELSE LET y == IF year \in ys THEN year ELSE CHOOSE z \in ys : TRUE
                variants == sm[y].fields[category].fields
                case_value == case_value_dict[case_id]
            IN IF case_value \notin DOMAIN variants
               THEN [found |-> FALSE, patch |-> EmptyDict]
               ELSE [found |-> TRUE, patch |-> variants[case_value].fields]

new_parameter(base, table, year, category, case_id) ==
    LET case_value_dict == planning_year_scenario_definitions_dict(table, year)[category]
        psm == planning_year_settings_management(base, year)
    IN IF case_id \notin DOMAIN case_value_dict
       THEN [found |-> FALSE, patch |-> EmptyDict]
       ELSE LET case_value == case_value_dict[case_id]
            IN IF category \notin DOMAIN psm
               THEN [found |-> FALSE, patch |-> EmptyDict]
               ELSE IF case_value \notin DOMAIN psm[category].fields
                    THEN [found |-> FALSE, patch |-> EmptyDict]
                    ELSE [found |-> TRUE,
                          patch |-> psm[category].fields[case_value].fields]

\* list(new_parameter.keys()): the patch's keys in the order the settings file
\* lists them
KeyOrder == <<"ng_cost", "atb", "model_year", "model_first_planning_year">>
settings_keys(patch) == SelectSeq(KeyOrder, LAMBDA k : k \in DOMAIN patch)

\* the position of the first key whose assertion `key not in modified_settings`
\* fails, 0 when every assertion passes
no_assert(keys, modified) == 0

first_conflict(keys, modified) ==
    IF \E i \in DOMAIN keys : keys[i] \in Range(modified)
    THEN CHOOSE i \in DOMAIN keys :
            /\ keys[i] \in Range(modified)
            /\ \A j \in 1..(i - 1) : keys[j] \notin Range(modified)
    ELSE 0

\* lines 185-187: the three assignments that end a case
finalize(s, year, case_id) ==
    SetItem(
        SetItem(
            SetItem(s, "model_first_planning_year",
                    Atom(model_planning_period_dict[year][1])),
            "model_year", Atom(model_planning_period_dict[year][2])),
        "case_name", StrV(case_id_name_map[case_id]))

years == unique_years(scenario_definitions)
case_ids == unique_case_ids(scenario_definitions)
year == years[year_idx]
case_id == case_ids[case_idx]
category == Categories[cat_idx]

\* for year in scenario_definitions["year"].unique(): scenario_settings[year] = {}
BeginYear ==
    /\ pc = "year_loop"
    /\ year_idx <= Len(years)
    /\ scenario_settings' = SetItem(scenario_settings, year, EmptyDict)
    /\ case_idx' = 1
    /\ pc' = "case_loop"
    /\ UNCHANGED <<settings, scenario_definitions, _settings, same_object,
                   modified_settings, year_idx, cat_idx, error>>

\* return scenario_settings
Return ==
    /\ pc = "year_loop"
    /\ year_idx > Len(years)
    /\ pc' = "return"
    /\ UNCHANGED <<settings, scenario_definitions, _settings, same_object,
                   modified_settings, scenario_settings, year_idx, case_idx,
                   cat_idx, error>>

\* lines 143-158: the deep copy, the column overlay, modified_settings = []
BeginCase ==
    /\ pc = "case_loop"
    /\ case_idx <= Len(case_ids)
    /\ LET copy == deepcopy(settings)
           frame == case_scenario_definitions(scenario_definitions, case_id, year)
       IN IF squeeze_is_series(frame)
          THEN LET s == column_overlay(copy.value, frame[1], Columns)
               IN /\ _settings' = s
                  /\ same_object' = copy.same_object
                  /\ settings' = IF copy.same_object THEN s ELSE settings
                  /\ modified_settings' = <<>>
                  /\ cat_idx' = 1
                  /\ pc' = "category_loop"
                  /\ error' = error
          ELSE \* .at[col] on a frame: raised outside the try
               /\ _settings' = copy.value
               /\ same_object' = copy.same_object
               /\ pc' = "raise"
               /\ error' = "IndexingError"
               /\ UNCHANGED <<settings, modified_settings, cat_idx>>
    /\ UNCHANGED <<scenario_definitions, scenario_settings, year_idx, case_idx>>

\* lines 159-183: one category of the case
VisitCategory ==
    /\ pc = "category_loop"
    /\ cat_idx <= Len(Categories)
    /\ LET np == new_parameter(settings, scenario_definitions, year, category, case_id)
           keys == settings_keys(np.patch)
           bad == first_conflict(keys, modified_settings)
       IN IF ~np.found
          THEN \* except KeyError: pass
               /\ cat_idx' = cat_idx + 1
               /\ UNCHANGED <<settings, _settings, same_object, modified_settings,
                              pc, error>>
          ELSE IF bad > 0
               THEN \* AssertionError: not caught
                    /\ modified_settings' = modified_settings \o SubSeq(keys, 1, bad - 1)
                    /\ pc' = "raise"
                    /\ error' = "AssertionError"
                    /\ UNCHANGED <<settings, _settings, same_object, cat_idx>>
               ELSE /\ modified_settings' = modified_settings \o keys
                    /\ _settings' = update_dictionary(_settings, np.patch)
                    /\ same_object' = FALSE
                    /\ cat_idx' = cat_idx + 1
                    /\ UNCHANGED <<settings, pc, error>>
    /\ UNCHANGED <<scenario_definitions, scenario_settings, year_idx, case_idx>>

\* lines 185-188
FinishCase ==
    /\ pc = "category_loop"
    /\ cat_idx > Len(Categories)
    /\ LET s == finalize(_settings, year, case_id)
       IN /\ _settings' = s
          /\ settings' = IF same_object THEN s ELSE settings
          /\ scenario_settings' =
                [scenario_settings EXCEPT ![year] = SetItem(@, case_id, s)]
    /\ case_idx' = case_idx + 1
    /\ pc' = "case_loop"
    /\ UNCHANGED <<scenario_definitions, same_object, modified_settings,
                   year_idx, cat_idx, error>>

\* the case loop is exhausted: on to the next year
EndYear ==
    /\ pc = "case_loop"
    /\ case_idx > Len(case_ids)
    /\ year_idx' = year_idx + 1
    /\ pc' = "year_loop"
    /\ UNCHANGED <<settings, scenario_definitions, _settings, same_object,
                   modified_settings, scenario_settings, case_idx, cat_idx, error>>

(***************************************************************************)
(* Specification of build_scenario_settings                                *)
(***************************************************************************)
FuelIdle ==
    /\ generators = <<>>
    /\ all_fuel_costs = {}
    /\ fuel_settings = <<>>
    /\ fuel_price_map = <<>>
    /\ fuel_emission_map = <<>>
    /\ fuel_df = <<>>
    /\ fuel_df_new = <<>>
    /\ fpc = "idle"

MergeIdle ==
    /\ m_base = EmptyDict
    /\ m_patch = EmptyDict
    /\ m_once = EmptyDict
    /\ m_twice = EmptyDict
    /\ mpc = "idle"

\* the state on entering the year loop (lines 120-129 done)
Init ==
    /\ settings = BaseSettings
    /\ scenario_definitions \in Tables
    /\ _settings = EmptyDict
    /\ same_object = FALSE
    /\ modified_settings = <<>>
    /\ scenario_settings = EmptyDict
    /\ year_idx = 1
    /\ case_idx = 1
    /\ cat_idx = 1
    /\ pc = "year_loop"
    /\ error = "none"
    /\ FuelIdle
    /\ MergeIdle

Next ==
    \/ BeginYear /\ UNCHANGED <<fvars, mvars>>
    \/ BeginCase /\ UNCHANGED <<fvars, mvars>>
    \/ VisitCategory /\ UNCHANGED <<fvars, mvars>>
    \/ FinishCase /\ UNCHANGED <<fvars, mvars>>
    \/ EndYear /\ UNCHANGED <<fvars, mvars>>
    \/ Return /\ UNCHANGED <<fvars, mvars>>

Spec == Init /\ [][Next]_vars

(***************************************************************************)
(* Properties of build_scenario_settings                                   *)
(***************************************************************************)
TableRows == Range(scenario_definitions)
HasRow(c, y) == \E r \in TableRows : r.case_id = c /\ r.year = y
RowOf(c, y) == CHOOSE r \in TableRows : r.case_id = c /\ r.year = y
Stored(c, y) == y \in DOMAIN scenario_settings /\ c \in DOMAIN scenario_settings[y]

\* the patch the settings file gives for the variant row r selects under
\* category cat: a set holding that patch, or the empty set
Selected(r, cat) ==
    LET sm == SettingsManagement[r.year].fields
    IN IF cat \in DOMAIN sm /\ r.cells[cat] \in DOMAIN sm[cat].fields
       THEN {sm[cat].fields[r.cells[cat]].fields}
       ELSE {}

\* two different categories of row r select patches sharing a settings key
RowConflict(r) ==
    \E c1, c2 \in Range(Categories) :
        /\ c1 # c2
        /\ \E p1 \in Selected(r, c1), p2 \in Selected(r, c2) :
                DOMAIN p1 \cap DOMAIN p2 # {}

\* the first-planning-year listed at the position of model year y
StartYearOf(y) ==
    LET i == CHOOSE j \in DOMAIN ModelYears : ModelYears[j] = y
    IN BaseSettings["model_first_planning_year"].items[i]

\* what the case (c, y) gives when built alone from the base settings
RECURSIVE ApplyPatches(_, _, _)
ApplyPatches(s, r, i) ==
    IF i > Len(Categories) THEN s
    ELSE LET sel == Selected(r, Categories[i])
         IN ApplyPatches(IF sel = {} THEN s
                         ELSE update_dictionary(s, CHOOSE p \in sel : TRUE),
                         r, i + 1)
BuildAlone(c, y) ==
    LET r == RowOf(c, y)
        s0 == [k \in DOMAIN BaseSettings \cup Range(Columns) |->
                 IF k = "case_id" THEN Atom(c)
                 ELSE IF k = "year" THEN Atom(y)
                 ELSE IF k \in Range(Categories) THEN Atom(r.cells[k])
                 ELSE BaseSettings[k]]
        s1 == ApplyPatches(s0, r, 1)
    IN [k \in DOMAIN s1 \cup {"model_year", "model_first_planning_year", "case_name"} |->
          IF k = "model_year" THEN Atom(y)
          ELSE IF k = "model_first_planning_year" THEN Atom(StartYearOf(y))
          ELSE IF k = "case_name" THEN StrV(case_id_name_map[c])
          ELSE s1[k]]

\* C1 (as claimed): for every table in which no (case_id, year) row has two
\* categories patching the same key, the build does not fail, and on return
\* the result holds a Settings object for exactly the (case_id, year) pairs
\* that are rows of the table, each with case_name taken from the
\* case-id-to-name map.
C1_BuildSucceedsOnConflictFreeTable ==
    (\A r \in TableRows : ~RowConflict(r)) =>
        /\ pc # "raise"
        /\ pc = "return" =>
              /\ DOMAIN scenario_settings = {r.year : r \in TableRows}
              /\ \A y \in DOMAIN scenario_settings :
                    /\ DOMAIN scenario_settings[y] = {r.case_id : r \in {q \in TableRows : q.year = y}}
                    /\ \A c \in DOMAIN scenario_settings[y] :
                          scenario_settings[y][c]["case_name"] = StrV(case_id_name_map[c])

\* C2: a (case_id, year) whose row has two categories patching the same key
\* never gets a Settings object: the build leaves its category loop only by
\* the assertion's error, and never returns.
C2_ConflictIsFatal ==
    /\ \A y \in DOMAIN scenario_settings : \A c \in DOMAIN scenario_settings[y] :
            ~RowConflict(RowOf(c, y))
    /\ (pc = "category_loop" /\ cat_idx > Len(Categories)) => ~RowConflict(RowOf(case_id, year))
    /\ pc = "return" => \A r \in TableRows : ~RowConflict(r)

C2_Witness ==
    /\ pc = "raise"
    /\ error = "AssertionError"
    /\ RowConflict(RowOf(case_id, year))
    /\ ~Stored(case_id, year)
    /\ \E c \in CaseIds : Stored(c, year)

\* C3: visiting a category for which the settings file has no patch (no entry
\* for the category in that year, or none for the selected variant) changes
\* neither the case's settings nor the list of modified keys and raises
\* nothing: the loop moves to the next category; when the loop ends, every
\* patch that was found is in the settings, and the case is stored.
C3_MissingPatchIsSkipped ==
    [][/\ (pc = "category_loop" /\ cat_idx <= Len(Categories)
              /\ Selected(RowOf(case_id, year), category) = {}) =>
            /\ _settings' = _settings
            /\ modified_settings' = modified_settings
            /\ pc' = "category_loop"
            /\ cat_idx' = cat_idx + 1
            /\ error' = "none"
       /\ (pc = "category_loop" /\ cat_idx > Len(Categories)) =>
            /\ \A cat \in Range(Categories) :
                  \A p \in Selected(RowOf(case_id, year), cat) :
                      \A k \in DOMAIN p :
                          /\ k \in DOMAIN _settings
                          /\ update_dictionary(_settings, p)[k] = _settings[k]
            /\ case_id \in DOMAIN scenario_settings'[year]]_vars

C3_Witness ==
    \E c \in CaseIds :
        /\ Stored(c, "2040")
        /\ Selected(RowOf(c, "2040"), "ng_price") = {}
        /\ Selected(RowOf(c, "2040"), "ccs_capex") # {}
        /\ "solar" \in DOMAIN scenario_settings["2040"][c]["atb"].fields

\* C4: the base settings never change, and every stored Settings object is
\* what its (year, case_id) gives when built alone from the base settings.
C4_NoCrossCaseContamination ==
    /\ settings = BaseSettings
    /\ \A y \in DOMAIN scenario_settings : \A c \in DOMAIN scenario_settings[y] :
            scenario_settings[y][c] = BuildAlone(c, y)

C4_Witness ==
    \E y \in DOMAIN scenario_settings : \E c1, c2 \in DOMAIN scenario_settings[y] :
        /\ c1 # c2
        /\ scenario_settings[y][c1]["ng_cost"] = Atom("5")
        /\ scenario_settings[y][c2]["ng_cost"] = Atom("4")
        /\ CaseIdList[1] = c1

\* C10: every stored Settings object has the scalar model_year of its year
\* and the scalar model_first_planning_year listed with that year, whatever
\* the overlays and patches of the case wrote to those keys.
C10_PlanningPeriodIsFinal ==
    \A y \in DOMAIN scenario_settings : \A c \in DOMAIN scenario_settings[y] :
        /\ scenario_settings[y][c]["model_year"] = Atom(y)
        /\ scenario_settings[y][c]["model_first_planning_year"] = Atom(StartYearOf(y))

C10_Witness ==
    /\ \E c \in CaseIds :
        /\ Stored(c, "2030")
        /\ \E p \in Selected(RowOf(c, "2030"), "ng_price") : "model_year" \in DOMAIN p
    /\ \E c \in CaseIds :
        /\ Stored(c, "2040")
        /\ \E p \in Selected(RowOf(c, "2040"), "ccs_capex") :
                "model_first_planning_year" \in DOMAIN p

(***************************************************************************)
(* update_dictionary on drawn inputs                                       *)
(***************************************************************************)
\* longest sequence-valued leaf, and deepest nesting, of the drawn dicts
MaxSeqLen == 1
MaxDepth == 2

TopKeys == {"a", "b"}
InnerKeys == {"c"}
RECURSIVE SeqsUpTo(_)
SeqsUpTo(n) == IF n = 0 THEN {<<>>} ELSE SeqsUpTo(n - 1) \cup [1..n -> {"x"}]
Leaves == {Atom("x"), Atom("y")} \cup {SeqV(q) : q \in SeqsUpTo(MaxSeqLen)}
Dicts(keys, vals) == UNION {[K -> vals] : K \in SUBSET keys}
RECURSIVE MergeValues(_)
MergeValues(depth) ==
    IF depth = 0 THEN Leaves
    ELSE Leaves \cup {Map(d) : d \in Dicts(InnerKeys, MergeValues(depth - 1))}
MergeDicts == Dicts(TopKeys, MergeValues(MaxDepth - 1))

BuilderIdle ==
    /\ settings = EmptyDict
    /\ scenario_definitions = <<>>
    /\ _settings = EmptyDict
    /\ same_object = FALSE
    /\ modified_settings = <<>>
    /\ scenario_settings = EmptyDict
    /\ year_idx = 1
    /\ case_idx = 1
    /\ cat_idx = 1
    /\ pc = "idle"
    /\ error = "none"

InitMerge ==
    /\ m_base \in MergeDicts
    /\ m_patch \in MergeDicts
    /\ m_once = EmptyDict
    /\ m_twice = EmptyDict
    /\ mpc = "start"
    /\ BuilderIdle
    /\ FuelIdle

\* merged = update_dictionary(base, patch)
MergeOnce ==
    /\ mpc = "start"
    /\ m_once' = update_dictionary(m_base, m_patch)
    /\ mpc' = "once"
    /\ UNCHANGED <<m_base, m_patch, m_twice>>

\* again = update_dictionary(merged, patch)
MergeTwice ==
    /\ mpc = "once"
    /\ m_twice' = update_dictionary(m_once, m_patch)
    /\ mpc' = "twice"
    /\ UNCHANGED <<m_base, m_patch, m_once>>

NextMerge ==
    \/ MergeOnce /\ UNCHANGED <<svars, fvars>>
    \/ MergeTwice /\ UNCHANGED <<svars, fvars>>

SpecMerge == InitMerge /\ [][NextMerge]_vars

\* C5: merging the same patch a second time changes nothing:
\* merge(merge(s, p), p) = merge(s, p).
C5_MergeIdempotent == mpc = "twice" => m_twice = m_once

C5_Witness ==
    /\ mpc = "twice"
    /\ m_once # m_base
    /\ \E k \in DOMAIN m_base \cap DOMAIN m_patch :
          /\ m_base[k].kind = "map" /\ m_patch[k].kind = "map"
          /\ m_once[k] # m_base[k]
    /\ \E k \in DOMAIN m_base \cap DOMAIN m_patch :
          m_base[k].kind = "seq" /\ m_patch[k].kind = "seq" /\ m_patch[k].items # <<>>

(***************************************************************************)
(* fuel_cost_table                                                         *)
(*                                                                         *)
(* Prices and emission factors are fixed-point numbers with four decimals  *)
(* (3.00 is 30000, 0.053 is 530); a missing value (NaN) is kept apart.     *)
(* A fuel name is the sequence of its underscore-delimited tokens.         *)
(***************************************************************************)
Scale == 10 * 10 * 10 * 10
HoursPerYear == 8760
HoursPerDay == 24

Num(v) == [nan |-> FALSE, v |-> v]
NaN == [nan |-> TRUE, v |-> 0]
Add(a, b) == IF a.nan \/ b.nan THEN NaN ELSE Num(a.v + b.v)
Sub(a, b) == IF a.nan \/ b.nan THEN NaN ELSE Num(a.v - b.v)
Mul(a, b) == IF a.nan \/ b.nan THEN NaN ELSE Num((a.v * b.v) \div Scale)

\* round(decimals): half to even; a number that has no more decimals
\* than asked for is left as it is
RECURSIVE Pow10(_)
Pow10(n) == IF n = 0 THEN 1 ELSE 10 * Pow10(n - 1)
round(a, decimals) ==
    IF a.nan THEN NaN
    ELSE LET unit == Scale \div Pow10(decimals)
             q == IF unit > 1 THEN a.v \div unit ELSE a.v
             rem == IF unit > 1 THEN a.v % unit ELSE 0
         IN IF unit <= 1 THEN a
            ELSE IF 2 * rem < unit THEN Num(q * unit)
            ELSE IF 2 * rem > unit THEN Num((q + 1) * unit)
            ELSE IF q % 2 = 0 THEN Num(q * unit) ELSE Num((q + 1) * unit)

\* fillna(0)
fillna(a) == IF a.nan THEN Num(0) ELSE a

\* "ccs" in name: some token holds the substring
CCSTokens == {"ccs", "ccs90"}
contains_ccs(name) == \E i \in DOMAIN name : name[i] \in CCSTokens

\* name.split("_")[-1], ("_").join(name.split("_")[:-1]),
\* ("_").join(name.split("_")[-2:])
last_token(name) == name[Len(name)]
drop_last_token(name) == SubSeq(name, 1, Len(name) - 1)
last_two_tokens(name) ==
    SubSeq(name, IF Len(name) > 1 THEN Len(name) - 1 ELSE 1, Len(name))

\* generators["Fuel"].drop_duplicates()
keep_duplicates(s) == s

drop_duplicates(s) == unique(s)

unique_fuels == drop_duplicates(generators)

\* lines 14-22: the model year's rows as full_fuel_name -> price
model_year_price_map(costs, fs) ==
    LET rows == {r \in costs : r.year = fs.model_year}
    IN [n \in {r.full_fuel_name : r \in rows} |->
            (CHOOSE r \in rows : r.full_fuel_name = n).price]

\* lines 34-40: the emission factor of each priced fuel, 0 when the settings
\* list none for its last token
price_emission_map(price_map, fs) ==
    [n \in DOMAIN price_map |->
        IF last_token(n) \in DOMAIN fs.fuel_emission_factors
        THEN fs.fuel_emission_factors[last_token(n)]
        ELSE 0]

\* lines 42-47: each CCS fuel of the roster takes its base fuel's price and
\* emission factor; fuel_price_map[base_name] raises KeyError when absent
RECURSIVE derive_ccs(_, _, _)
derive_ccs(ccs_fuels, price_map, emission_map) ==
    IF ccs_fuels = <<>>
    THEN [ok |-> TRUE, price |-> price_map, emission |-> emission_map]
    ELSE LET ccs_fuel == Head(ccs_fuels)
             base_name == drop_last_token(ccs_fuel)
         IN IF base_name \notin DOMAIN price_map \/ base_name \notin DOMAIN emission_map
            THEN [ok |-> FALSE, price |-> price_map, emission |-> emission_map]
            ELSE derive_ccs(Tail(ccs_fuels),
                            SetItem(price_map, ccs_fuel, price_map[base_name]),
                            SetItem(emission_map, ccs_fuel, emission_map[base_name]))

\* settings["ccs_capture_rate"][base_fuel_name]
capture_rate_or_zero(fs, key) ==
    IF fs.ccs_capture_rate = {} THEN [ok |-> TRUE, v |-> Num(0)]
    ELSE LET rates == CHOOSE d \in fs.ccs_capture_rate : TRUE
         IN IF key \in DOMAIN rates THEN [ok |-> TRUE, v |-> Num(rates[key])]
            ELSE [ok |-> TRUE, v |-> Num(0)]

capture_rate(fs, key) ==
    IF fs.ccs_capture_rate = {} THEN [ok |-> FALSE, v |-> NaN]
    ELSE LET rates == CHOOSE d \in fs.ccs_capture_rate : TRUE
         IN IF key \in DOMAIN rates THEN [ok |-> TRUE, v |-> Num(rates[key])]
            ELSE [ok |-> FALSE, v |-> NaN]

\* settings["ccs_disposal_cost"]
disposal_cost(fs) ==
    IF fs.ccs_disposal_cost = {} THEN [ok |-> FALSE, v |-> NaN]
    ELSE [ok |-> TRUE, v |-> Num(CHOOSE d \in fs.ccs_disposal_cost : TRUE)]

\* adjust_ccs_fuels(ccs_fuel_row, settings)
adjust_ccs_fuels_keep_emissions(row, fs) ==
    IF contains_ccs(row.Fuel)
    THEN LET d == disposal_cost(fs)
             r == capture_rate(fs, last_two_tokens(row.Fuel))
         IN IF ~d.ok \/ ~r.ok THEN [ok |-> FALSE, row |-> row]
            ELSE LET co2_captured == Mul(row.CO2_content_tons_per_MMBtu, r.v)
                 IN [ok |-> TRUE,
                     row |-> [row EXCEPT
                        !.Cost_per_MMBtu = Add(@, Mul(co2_captured, d.v))]]
    ELSE [ok |-> TRUE, row |-> row]

adjust_ccs_fuels(row, fs) ==
    IF contains_ccs(row.Fuel)
    THEN LET d == disposal_cost(fs)
             r == capture_rate(fs, last_two_tokens(row.Fuel))
         IN IF ~d.ok \/ ~r.ok THEN [ok |-> FALSE, row |-> row]
            ELSE LET co2_captured == Mul(row.CO2_content_tons_per_MMBtu, r.v)
                 IN [ok |-> TRUE,
                     row |-> [row EXCEPT
                        !.CO2_content_tons_per_MMBtu = Sub(@, co2_captured),
                        !.Cost_per_MMBtu = Add(@, Mul(co2_captured, d.v))]]
    ELSE [ok |-> TRUE, row |-> row]

\* add_carbon_tax(fuel_df, settings): ctax = settings.get("carbon_tax") or 0
ctax(fs) == IF fs.carbon_tax = {} THEN Num(0) ELSE Num(CHOOSE t \in fs.carbon_tax : TRUE)
add_carbon_tax(df, fs) ==
    [i \in DOMAIN df |->
        [df[i] EXCEPT !.Cost_per_MMBtu =
            Add(@, Mul(df[i].CO2_content_tons_per_MMBtu, ctax(fs)))]]

\* lines 59-64
num_hours_per_period(fs) ==
    IF fs.reduce_time_domain = {TRUE}
    THEN fs.time_domain_days_per_period * HoursPerDay
    ELSE HoursPerYear

num_hours(fs) ==
    IF fs.reduce_time_domain = {TRUE}
    THEN fs.time_domain_days_per_period * fs.time_domain_periods * HoursPerDay
    ELSE HoursPerYear

\* lines 12-40
FuelPriceLookup ==
    /\ fpc = "start"
    /\ LET pm == model_year_price_map(all_fuel_costs, fuel_settings)
       IN /\ fuel_price_map' = pm
          /\ fuel_emission_map' = price_emission_map(pm, fuel_settings)
    /\ fpc' = "priced"
    /\ UNCHANGED <<generators, all_fuel_costs, fuel_settings, fuel_df, fuel_df_new>>

\* lines 42-47
DeriveCCSFuels ==
    /\ fpc = "priced"
    /\ LET ccs_fuels == unique(SelectSeq(generators, contains_ccs))
           res == derive_ccs(ccs_fuels, fuel_price_map, fuel_emission_map)
       IN /\ fuel_price_map' = res.price
          /\ fuel_emission_map' = res.emission
          /\ fpc' = IF res.ok THEN "derived" ELSE "raise"
    /\ UNCHANGED <<generators, all_fuel_costs, fuel_settings, fuel_df, fuel_df_new>>

\* lines 17, 49-50: a fuel found in neither map gets a missing value
BuildFuelDf ==
    /\ fpc = "derived"
    /\ fuel_df' =
          [i \in DOMAIN unique_fuels |->
              LET f == unique_fuels[i]
              IN [Fuel |-> f,
                  Cost_per_MMBtu |->
                      IF f \in DOMAIN fuel_price_map THEN Num(fuel_price_map[f]) ELSE NaN,
                  CO2_content_tons_per_MMBtu |->
                      IF f \in DOMAIN fuel_emission_map THEN Num(fuel_emission_map[f]) ELSE NaN]]
    /\ fpc' = "mapped"
    /\ UNCHANGED <<generators, all_fuel_costs, fuel_settings, fuel_price_map,
                   fuel_emission_map, fuel_df_new>>

\* line 53: fuel_df.apply(adjust_ccs_fuels, axis=1, settings=settings)
ApplyCCSAdjustment ==
    /\ fpc = "mapped"
    /\ LET res == [i \in DOMAIN fuel_df |-> adjust_ccs_fuels(fuel_df[i], fuel_settings)]
       IN IF \A i \in DOMAIN res : res[i].ok
          THEN /\ fuel_df' = [i \in DOMAIN res |-> res[i].row]
               /\ fpc' = "adjusted"
          ELSE /\ fuel_df' = fuel_df
               /\ fpc' = "raise"
    /\ UNCHANGED <<generators, all_fuel_costs, fuel_settings, fuel_price_map,
                   fuel_emission_map, fuel_df_new>>

\* lines 54-57: the carbon tax, then fillna(0)
ApplyCarbonTax ==
    /\ fpc = "adjusted"
    /\ LET taxed == add_carbon_tax(fuel_df, fuel_settings)
       IN fuel_df' =
            [i \in DOMAIN taxed |->
                [taxed[i] EXCEPT
                    !.Cost_per_MMBtu = fillna(@),
                    !.CO2_content_tons_per_MMBtu = fillna(@)]]
    /\ fpc' = "taxed"
    /\ UNCHANGED <<generators, all_fuel_costs, fuel_settings, fuel_price_map,
                   fuel_emission_map, fuel_df_new>>

\* lines 59-80: the emissions row at index 0, then the price row at each of
\* the hours 1..num_hours; the columns are renamed to unique_fuels by position.
\* No value is missing after fillna(0), so a cell holds the number itself.
EmitTable ==
    /\ fpc = "taxed"
    /\ LET fuel_df_prices == [i \in DOMAIN fuel_df |-> round(fuel_df[i].Cost_per_MMBtu, 2).v]
           fuel_df_top ==
               [i \in DOMAIN fuel_df |-> round(fuel_df[i].CO2_content_tons_per_MMBtu, 5).v]
       IN fuel_df_new' =
            [index_name |-> "Time_Index",
             columns |-> unique_fuels,
             rows |-> [t \in 0..num_hours(fuel_settings) |->
                          IF t = 0 THEN fuel_df_top ELSE fuel_df_prices]]
    /\ fpc' = "return"
    /\ UNCHANGED <<generators, all_fuel_costs, fuel_settings, fuel_price_map,
                   fuel_emission_map, fuel_df>>

(***************************************************************************)
(* Inputs of fuel_cost_table                                               *)
(***************************************************************************)
\* longest generator roster drawn
MaxRoster == 3

RosterFuels ==
    {<<"ref", "naturalgas">>, <<"ref", "naturalgas", "ccs90">>,
     <<"ref", "coal">>, <<"ref", "coal", "ccs90">>}
Rosters == UNION {[1..n -> RosterFuels] : n \in 1..MaxRoster}

\* the price table after add_user_fuel_prices: 2040 rows are always there,
\* the 2030 rows of the two base fuels may be missing
OtherYearRows ==
    {[full_fuel_name |-> <<"ref", "naturalgas">>, year |-> 2040, price |-> 9 * Scale],
     [full_fuel_name |-> <<"ref", "coal">>, year |-> 2040, price |-> 8 * Scale]}
ModelYearRows ==
    {[full_fuel_name |-> <<"ref", "naturalgas">>, year |-> 2030, price |-> 3 * Scale],
     [full_fuel_name |-> <<"ref", "coal">>, year |-> 2030, price |-> 20050]}
PriceTables == {OtherYearRows \cup P : P \in SUBSET ModelYearRows}

CaptureRates ==
    {{},
     {[k \in {<<"naturalgas", "ccs90">>} |-> 9000]},
     {[k \in {<<"naturalgas", "ccs90">>, <<"coal", "ccs90">>} |->
          IF k = <<"coal", "ccs90">> THEN 5000 ELSE 9000]}}

\* reduce_time_domain unset, False, or True with its two period settings
TimeDomains ==
    {[reduce_time_domain |-> {}, days |-> 7, periods |-> 4],
     [reduce_time_domain |-> {FALSE}, days |-> 7, periods |-> 4],
     [reduce_time_domain |-> {TRUE}, days |-> 7, periods |-> 4],
     [reduce_time_domain |-> {TRUE}, days |-> 1, periods |-> 2]}
ShortTimeDomain == [reduce_time_domain |-> {TRUE}, days |-> 1, periods |-> 2]

FuelSettingsOf(cr, dc, ct, td) ==
    [model_year |-> 2030,
     fuel_emission_factors |-> [k \in {"naturalgas"} |-> 530],
     ccs_capture_rate |-> cr,
     ccs_disposal_cost |-> dc,
     carbon_tax |-> ct,
     reduce_time_domain |-> td.reduce_time_domain,
     time_domain_days_per_period |-> td.days,
     time_domain_periods |-> td.periods]

\* The calls drawn (InitFuel): every roster with every price table and every CCS and
\* carbon-tax setting under the short time domain, and every roster of one
\* or two generators with every time domain under the complete price table
\* and CCS settings.
CompleteCaptureRates ==
    {[k \in {<<"naturalgas", "ccs90">>, <<"coal", "ccs90">>} |->
         IF k = <<"coal", "ccs90">> THEN 5000 ELSE 9000]}

InitFuel ==
    /\ \/ \E g \in Rosters, c \in PriceTables, cr \in CaptureRates,
             dc \in {{}, {10 * Scale}}, ct \in {{}, {5 * Scale}} :
                /\ generators = g
                /\ all_fuel_costs = c
                /\ fuel_settings = FuelSettingsOf(cr, dc, ct, ShortTimeDomain)
       \/ \E g \in [1..1 -> RosterFuels] \cup [1..2 -> RosterFuels], td \in TimeDomains :
                /\ generators = g
                /\ all_fuel_costs = OtherYearRows \cup ModelYearRows
                /\ fuel_settings =
                      FuelSettingsOf(CompleteCaptureRates, {10 * Scale}, {5 * Scale}, td)
    /\ fuel_price_map = <<>>
    /\ fuel_emission_map = <<>>
    /\ fuel_df = <<>>
    /\ fuel_df_new = <<>>
    /\ fpc = "start"
    /\ BuilderIdle
    /\ MergeIdle

NextFuel ==
    \/ FuelPriceLookup /\ UNCHANGED <<svars, mvars>>
    \/ DeriveCCSFuels /\ UNCHANGED <<svars, mvars>>
    \/ BuildFuelDf /\ UNCHANGED <<svars, mvars>>
    \/ ApplyCCSAdjustment /\ UNCHANGED <<svars, mvars>>
    \/ ApplyCarbonTax /\ UNCHANGED <<svars, mvars>>
    \/ EmitTable /\ UNCHANGED <<svars, mvars>>

SpecFuel == InitFuel /\ [][NextFuel]_vars

(***************************************************************************)
(* Properties of fuel_cost_table                                           *)
(***************************************************************************)
PricedIn(name) ==
    \E r \in all_fuel_costs :
        r.full_fuel_name = name /\ r.year = fuel_settings.model_year
PriceOf(name) ==
    (CHOOSE r \in all_fuel_costs :
        r.full_fuel_name = name /\ r.year = fuel_settings.model_year).price
FactorOf(name) ==
    IF name[Len(name)] \in DOMAIN fuel_settings.fuel_emission_factors
    THEN fuel_settings.fuel_emission_factors[name[Len(name)]]
    ELSE 0
TaxOf == IF fuel_settings.carbon_tax = {} THEN 0 ELSE CHOOSE t \in fuel_settings.carbon_tax : TRUE
BaseOf(name) == SubSeq(name, 1, Len(name) - 1)
RateKeyOf(name) == <<name[Len(name) - 1], name[Len(name)]>>
RateDeclared(name) ==
    \E d \in fuel_settings.ccs_capture_rate : RateKeyOf(name) \in DOMAIN d
RateOf(name) == (CHOOSE d \in fuel_settings.ccs_capture_rate : TRUE)[RateKeyOf(name)]
DisposalDeclared == fuel_settings.ccs_disposal_cost # {}
DisposalOf == CHOOSE d \in fuel_settings.ccs_disposal_cost : TRUE
FxMul(a, b) == (a * b) \div Scale
IsCCS(name) == \E i \in DOMAIN name : name[i] \in {"ccs", "ccs90"}

\* C6: once the carbon tax is applied, a CCS fuel whose base fuel has price p
\* and emission factor e holds emissions e - e*r and price
\* p + (e*r)*d + (e - e*r)*t; a priced fuel that is not a CCS fuel holds
\* emissions e and price p + e*t.
C6_CaptureBeforeTax ==
    fpc \in {"taxed", "return"} =>
        \A i \in DOMAIN fuel_df :
            LET f == fuel_df[i].Fuel
                t == TaxOf
            IN IF IsCCS(f)
               THEN (PricedIn(BaseOf(f)) /\ RateDeclared(f) /\ DisposalDeclared) =>
                        LET p == PriceOf(BaseOf(f))
                            e == FactorOf(BaseOf(f))
                            captured == FxMul(e, RateOf(f))
                        IN /\ fuel_df[i].CO2_content_tons_per_MMBtu = Num(e - captured)
                           /\ fuel_df[i].Cost_per_MMBtu =
                                Num(p + FxMul(captured, DisposalOf) + FxMul(e - captured, t))
               ELSE PricedIn(f) =>
                        /\ fuel_df[i].CO2_content_tons_per_MMBtu = Num(FactorOf(f))
                        /\ fuel_df[i].Cost_per_MMBtu = Num(PriceOf(f) + FxMul(FactorOf(f), t))

\* natural gas at 3.00 with factor 0.053, capture rate 0.9, disposal cost 10
\* and carbon tax 5: emissions 0.0053, price 3.5035
C6_Witness ==
    /\ fpc = "taxed"
    /\ \E i \in DOMAIN fuel_df :
          /\ fuel_df[i].Fuel = <<"ref", "naturalgas", "ccs90">>
          /\ fuel_df[i].CO2_content_tons_per_MMBtu = Num(53)
          /\ fuel_df[i].Cost_per_MMBtu = Num(35035)
    /\ \E i \in DOMAIN fuel_df :
          /\ fuel_df[i].Fuel = <<"ref", "naturalgas">>
          /\ fuel_df[i].Cost_per_MMBtu = Num(30000 + 2650)

\* C7: the CCS adjustment is passed, and a table returned, only if every CCS
\* fuel of the roster has its base fuel priced for the model year, a capture
\* rate declared under its last two tokens, and a declared disposal cost.
C7_CCSInputsRequired ==
    fpc \in {"adjusted", "taxed", "return"} =>
        \A f \in Range(generators) :
            IsCCS(f) => PricedIn(BaseOf(f)) /\ RateDeclared(f) /\ DisposalDeclared

C7_Witness ==
    /\ fpc = "raise"
    /\ \A f \in Range(generators) :
          IsCCS(f) => PricedIn(BaseOf(f)) /\ DisposalDeclared
    /\ \E f \in Range(generators) : IsCCS(f) /\ ~RateDeclared(f)
    /\ \E f \in Range(generators) : IsCCS(f) /\ RateDeclared(f)

\* C8: the returned table has one column per distinct roster fuel, in
\* first-seen order: every roster fuel is a column exactly once and every
\* column is a roster fuel; every row holds one value per column.
C8_OneColumnPerFuel ==
    fpc = "return" =>
        LET cols == fuel_df_new.columns
            first(f) == CHOOSE i \in DOMAIN generators :
                            generators[i] = f /\ \A j \in 1..(i - 1) : generators[j] # f
        IN /\ \A f \in Range(generators) : Cardinality({i \in DOMAIN cols : cols[i] = f}) = 1
           /\ \A i \in DOMAIN cols : cols[i] \in Range(generators)
           /\ \A i, j \in DOMAIN cols : i < j => first(cols[i]) < first(cols[j])
           /\ \A t \in DOMAIN fuel_df_new.rows : Len(fuel_df_new.rows[t]) = Len(cols)

C8_Witness ==
    /\ fpc = "return"
    /\ Len(fuel_df_new.columns) = 2
    /\ Len(generators) = 3
    /\ generators[1] = generators[3]

\* C9: the returned table's index is 0..N, row 0 holds the emission factors
\* and every row 1..N the same prices, with N = 8760 unless
\* reduce_time_domain is true, and then days_per_period * periods * 24.
C9_HourlyRows ==
    fpc = "return" =>
        LET N == IF fuel_settings.reduce_time_domain = {TRUE}
                 THEN fuel_settings.time_domain_days_per_period
                        * fuel_settings.time_domain_periods * 24
                 ELSE 8760
            rows == fuel_df_new.rows
        IN /\ DOMAIN rows = 0..N
           /\ rows[0] = [i \in DOMAIN fuel_df |-> fuel_df[i].CO2_content_tons_per_MMBtu.v]
           /\ \A i \in DOMAIN fuel_df :
                 LET c == fuel_df[i].Cost_per_MMBtu.v
                 IN rows[1][i] % 100 = 0 /\ rows[1][i] - c <= 50 /\ c - rows[1][i] <= 50
           /\ \A t \in 1..N : rows[t] = rows[1]

C9_Witness ==
    /\ fpc = "return"
    /\ fuel_settings.reduce_time_domain = {TRUE}
    /\ fuel_settings.time_domain_days_per_period = 7
    /\ fuel_settings.time_domain_periods = 4
    /\ DOMAIN fuel_df_new.rows = 0..672
    /\ \E i \in DOMAIN fuel_df : fuel_df_new.rows[672][i] = 35000

====
